---- MODULE Spec2Model ----
(***************************************************************************)
(* Model of the command-routing and action-execution agent of              *)
(* app/src/graph.py: _keep_korean_lines, _call_route_action,               *)
(* _call_agent_chat_for_reply, the file and e-mail helpers and the two     *)
(* LangGraph nodes classify_node and chat_and_act_node.                    *)
(*                                                                         *)
(* Text is a sequence of tokens.  A token is a run of characters of one    *)
(* kind: "K" one Hangul syllable, "a" one non-Hangul non-space character,  *)
(* "aaaaaa" six of them, " " a space, "\n" a line break, "<think>" and     *)
(* "</think>" the reasoning markers, and a few fixed messages of the        *)
(* program kept as one token each.  hangul(tok) and nonspace(tok) give      *)
(* the number of Hangul syllables and of non-space characters of a token.  *)
(***************************************************************************)
EXTENDS Integers, Sequences, FiniteSets, TLC

VARIABLES
    colabBase,      \* COLAB_API_BASE is set (module constant read from the environment)
    smtpCreds,      \* SMTP_USER and SMTP_PASSWORD are both set
    pc,             \* position of the invocation of the compiled graph
    command,        \* AgentState.command
    bhc_di_ko,      \* AgentState.bhc_di_ko
    state,          \* AgentState keys written by the nodes
    loc,            \* locals of chat_and_act_node between its steps
    routeResp,      \* what POST /route_action gave in this invocation
    plan,           \* what _call_route_action returned or raised
    chatResp,       \* what POST /agent_chat gave in this invocation
    genDir,         \* <cwd>/generated exists
    files,          \* path -> content of the files under <cwd>/generated
    outbox,         \* messages handed to smtp.send_message, oldest first
    calls,          \* collaborators invoked by this invocation, in order
    exc,            \* exception that escaped the graph, or "none"
    runs,           \* invocations started so far
    dispatch,       \* how send_email_with_attachment ended in this invocation
    replay,         \* the finished invocation that is being repeated, if any
    conc,           \* the invocations of two sessions running at the same time
    filterIn,       \* argument of _keep_korean_lines
    filterOut,      \* its return value
    fpc,            \* "in" before the call, "out" after it
    pdf,            \* a call of create_pdf_file: its text and the lines it draws
    ui              \* st.session_state of one browser session

vars == <<colabBase, smtpCreds, pc, command, bhc_di_ko, state, loc, routeResp,
          plan, chatResp, genDir, files, outbox, calls, exc, runs, dispatch,
          replay, conc, filterIn, filterOut, fpc, pdf, ui>>

agentVars == <<colabBase, smtpCreds, pc, command, bhc_di_ko, state, loc,
               routeResp, plan, chatResp, genDir, files, outbox, calls, exc, runs,
               dispatch, replay, conc>>

sequentialVars ==
    <<colabBase, smtpCreds, pc, command, bhc_di_ko, state, loc, routeResp,
      plan, chatResp, genDir, files, outbox, calls, exc, runs, dispatch,
      replay>>

filterVars == <<filterIn, filterOut, fpc>>

----------------------------------------------------------------------------
(* Bounds *)

MaxRuns == 2

MaxLen == 5

\* the longest run of lines of a text given to create_pdf_file
MaxLines == 60

\* the events of one browser session
MaxEvents == 3

----------------------------------------------------------------------------
(* Text *)

THINK_OPEN == "<think>"

THINK_CLOSE == "</think>"

NL == "\n"

SP == " "

LATIN6 == "aaaaaa"

\* the "try again" reply of _call_agent_chat_for_reply, one line of Korean
MSG_TRY_AGAIN == "MSG_TRY_AGAIN"

\* the "server configuration" reply of _call_agent_chat_for_reply
MSG_NO_SERVER == "MSG_NO_SERVER"

hangul(tok) ==
    CASE tok = "K" -> 1
      [] tok = MSG_TRY_AGAIN -> 24
      [] OTHER -> 0

nonspace(tok) ==
    CASE tok = SP -> 0
      [] tok = NL -> 0
      [] tok = THINK_OPEN -> 7
      [] tok = THINK_CLOSE -> 8
      [] tok = LATIN6 -> 6
      [] tok = MSG_TRY_AGAIN -> 26
      [] OTHER -> 1

\* len(re.findall(r"[\uAC00-\uD7A3]", s))
RECURSIVE korean_count(_)
korean_count(s) ==
    IF s = <<>> THEN 0 ELSE hangul(Head(s)) + korean_count(Tail(s))

\* len(s.replace(" ", ""))
RECURSIVE total_count(_)
total_count(s) ==
    IF s = <<>> THEN 0 ELSE nonspace(Head(s)) + total_count(Tail(s))

WS == {SP, NL}

RECURSIVE lstrip(_)
lstrip(s) ==
    IF s = <<>> THEN s
    ELSE IF Head(s) \in WS THEN lstrip(Tail(s)) ELSE s

RECURSIVE rstrip(_)
rstrip(s) ==
    IF s = <<>> THEN s
    ELSE IF s[Len(s)] \in WS THEN rstrip(SubSeq(s, 1, Len(s) - 1)) ELSE s

\* str.strip()
strip(s) == rstrip(lstrip(s))

\* the index ranges <<first, last>> of the lines str.splitlines() returns
RECURSIVE line_ranges(_, _, _, _)
line_ranges(s, i, start, acc) ==
    IF i > Len(s)
    THEN IF start > Len(s) THEN acc ELSE Append(acc, <<start, Len(s)>>)
    ELSE IF s[i] = NL
         THEN line_ranges(s, i + 1, i + 1, Append(acc, <<start, i - 1>>))
         ELSE line_ranges(s, i + 1, start, acc)

\* str.splitlines()
splitlines(s) ==
    LET r == line_ranges(s, 1, 1, <<>>)
    IN  [k \in 1..Len(r) |-> SubSeq(s, r[k][1], r[k][2])]

\* "\n".join(lines)
RECURSIVE join_lines(_)
join_lines(ls) ==
    IF ls = <<>> THEN <<>>
    ELSE IF Len(ls) = 1 THEN ls[1]
    ELSE ls[1] \o <<NL>> \o join_lines(Tail(ls))

\* the index of the first "</think>" after position i, 0 when there is none
first_close(s, i) ==
    IF \E j \in (i + 1)..Len(s) : s[j] = THINK_CLOSE
    THEN CHOOSE j \in (i + 1)..Len(s) :
            /\ s[j] = THINK_CLOSE
            /\ \A k \in (i + 1)..(j - 1) : s[k] # THINK_CLOSE
    ELSE 0

\* the indices re.sub(r"<think>.*?</think>", "", s, flags=re.DOTALL) deletes
RECURSIVE think_indices(_, _)
think_indices(s, i) ==
    IF i > Len(s) THEN {}
    ELSE IF s[i] = THINK_OPEN /\ first_close(s, i) # 0
         THEN (i..first_close(s, i)) \cup think_indices(s, first_close(s, i) + 1)
         ELSE think_indices(s, i + 1)

RECURSIVE drop_indices(_, _, _)
drop_indices(s, i, gone) ==
    IF i > Len(s) THEN <<>>
    ELSE IF i \in gone THEN drop_indices(s, i + 1, gone)
         ELSE <<s[i]>> \o drop_indices(s, i + 1, gone)

\* re.sub(r"<think>.*?</think>", "", s, flags=re.DOTALL)
remove_think(s) == drop_indices(s, 1, think_indices(s, 1))

\* total_count > 10: longer lines are subject to the ratio test
SHORT_LINE == 10

\* korean_ratio < 0.2 is korean_count / total_count < 1 / RATIO_DEN
RATIO_DEN == 5

\* keep_line with the ratio test applied from SHORT_LINE characters on
keep_line_from_threshold(stripped) ==
    /\ stripped # <<>>
    /\ korean_count(stripped) > 0
    /\ ~ ( /\ total_count(stripped) >= SHORT_LINE
           /\ RATIO_DEN * korean_count(stripped) < total_count(stripped) )

\* the loop body of _keep_korean_lines: TRUE when the stripped line is appended
keep_line(stripped) ==
    /\ stripped # <<>>
    /\ korean_count(stripped) > 0
    /\ ~ ( /\ total_count(stripped) > SHORT_LINE
           /\ RATIO_DEN * korean_count(stripped) < total_count(stripped) )

\* the lines the loop of _keep_korean_lines looks at
filter_lines(text) == splitlines(text)

\* kept_lines of _keep_korean_lines
kept_lines(text) ==
    LET ls == filter_lines(text)
        st == [k \in 1..Len(ls) |-> strip(ls[k])]
    IN  SelectSeq(st, keep_line)

\* what _keep_korean_lines returns when nothing is kept
filter_fallback(text) == remove_think(text)

keep_korean_lines(text) ==
    LET result == strip(join_lines(kept_lines(text)))
    IN  IF result = <<>> THEN filter_fallback(text) ELSE result

----------------------------------------------------------------------------
(* The remote capabilities and _call_route_action *)

\* a JSON value of the "email" key: absent or null, a string, a non-zero number
EmailValues ==
    { [t |-> "null", v |-> <<>>],
      [t |-> "str",  v |-> <<SP>>],
      [t |-> "str",  v |-> <<SP, "e1", SP>>],
      [t |-> "num",  v |-> <<>>] }

\* "MISSING": the key is absent from the response
ActionValues == {"MISSING", "none", "save_file", "send_email", "delete"}

FileTypeValues == {"MISSING", "pdf", "docx", "hwp"}

NoResponse ==
    [kind |-> "no_request", action |-> "MISSING", file_type |-> "MISSING",
     email |-> [t |-> "null", v |-> <<>>]]

\* what requests.post(ROUTE_ACTION_ENDPOINT) ... resp.json() can give:
\* an exception (HTTP error, timeout, body that is not JSON), a JSON value
\* that is not an object, or an object
RouteResponses ==
    { [NoResponse EXCEPT !.kind = "transport_error"],
      [NoResponse EXCEPT !.kind = "not_object"] }
    \cup
    [kind : {"object"}, action : ActionValues, file_type : FileTypeValues,
     email : EmailValues]

\* dict.get(key, default)
get(value, default) == IF value = "MISSING" THEN default ELSE value

Returned(a, f, e) ==
    [outcome |-> "return", action |-> a, file_type |-> f, email |-> e,
     err |-> "none"]

Raised(e) ==
    [outcome |-> "raise", action |-> "none", file_type |-> "none",
     email |-> <<>>, err |-> e]

\* the value returned when requests.post or resp.json() raises
route_action_on_error == Returned("none", "docx", <<>>)

\* normal_action without the coercion to the closed set
normal_action_unchecked(resp) == get(resp.action, "none")

\* action = data.get("action", "none"), coerced to the closed set
normal_action(resp) ==
    LET action == get(resp.action, "none")
    IN  IF action \notin {"save_file", "send_email", "none"} THEN "none" ELSE action

\* normal_file_type defaulting to docx whatever the action
normal_file_type_always_docx(resp, action) ==
    LET file_type == get(resp.file_type, "docx")
    IN  IF file_type \notin {"pdf", "docx"} THEN "docx" ELSE file_type

\* file_type = data.get("file_type", "docx"), coerced
normal_file_type(resp, action) ==
    LET file_type == get(resp.file_type, "docx")
    IN  IF file_type \notin {"pdf", "docx"}
        THEN (IF action # "none" THEN "docx" ELSE "none")
        ELSE file_type

\* email = (data.get("email") or "").strip()
normal_email(resp) == strip(resp.email.v)

call_route_action(base, resp) ==
    IF ~base THEN Returned("none", "none", <<>>)
    ELSE IF resp.kind = "transport_error" THEN route_action_on_error
    ELSE IF resp.kind = "not_object" THEN Raised("AttributeError")
    ELSE LET action == normal_action(resp)
             file_type == normal_file_type(resp, action)
         IN  IF resp.email.t = "num" THEN Raised("AttributeError")
             ELSE Returned(action, file_type, normal_email(resp))

\* the texts the "response" key of POST /agent_chat can hold
ChatTexts ==
    { <<>>,
      <<SP, "K", NL>>,
      <<"a", SP, "a">>,
      <<THINK_OPEN, "a", THINK_CLOSE>>,
      <<THINK_OPEN, "K", THINK_CLOSE, NL, "K">>,
      <<"a", NL, "K", "a">> }

ChatResponses ==
    [kind : {"transport_error", "not_object"}, text : {<<>>}]
    \cup [kind : {"object"}, text : ChatTexts]

NoChat == [kind |-> "no_request", text |-> <<>>]

ERR_REPLY == "ERR_REPLY"

\* reply = (data.get("response") or "").strip(), replaced when empty
raw_reply(text) == IF strip(text) = <<>> THEN <<MSG_TRY_AGAIN>> ELSE strip(text)

call_agent_chat_for_reply(base, resp) ==
    IF ~base THEN <<MSG_NO_SERVER>>
    ELSE IF resp.kind # "object" THEN <<ERR_REPLY, resp.kind>>
    ELSE keep_korean_lines(raw_reply(resp.text))

----------------------------------------------------------------------------
(* Files and e-mail *)

GENERATED == "generated"

\* os.path.join(base_dir, name)
path_join(dir, name) == <<dir, name>>

\* os.path.basename(path)
basename(path) == path[Len(path)]

Paths ==
    { path_join(GENERATED, n) :
        n \in {"discharge_summary.pdf", "discharge_summary.docx",
               "discharge_summary_email.pdf", "discharge_summary_email.docx"} }

NoFile == [fmt |-> "absent", body |-> <<>>]

\* the words of line.split(" ") that are not empty
RECURSIVE words(_, _, _)
words(line, cur, acc) ==
    IF line = <<>> THEN (IF cur = <<>> THEN acc ELSE Append(acc, cur))
    ELSE IF Head(line) = SP
         THEN words(Tail(line), <<>>, IF cur = <<>> THEN acc ELSE Append(acc, cur))
         ELSE words(Tail(line), Append(cur, Head(line)), acc)

RECURSIVE join_words(_)
join_words(ws) ==
    IF ws = <<>> THEN <<>>
    ELSE IF Len(ws) = 1 THEN ws[1]
    ELSE ws[1] \o <<SP>> \o join_words(Tail(ws))

\* wrap_line for a line that fits the usable width: its words, one space apart
wrap_line(line) == join_words(words(line, <<>>, <<>>))

\* the paragraphs create_docx_file writes: one per line of the text
create_docx_file(text) == [fmt |-> "docx", body |-> splitlines(text)]

\* the text lines create_pdf_file draws: "" for a blank line, else the wrapped line
create_pdf_file(text) ==
    LET ls == splitlines(text)
    IN  [fmt |-> "pdf",
         body |-> [k \in 1..Len(ls) |->
                     IF strip(ls[k]) = <<>> THEN <<>> ELSE wrap_line(ls[k])]]

\* the page of create_pdf_file, in hundredths of a point: A4 is 841.89 high
PAGE_HEIGHT == 84189

TOP_MARGIN == 4000

BOTTOM_MARGIN == 4000

\* the leading textLine moves the cursor down by: 1.2 * font_size, font_size 11
LEADING == 1320

\* text_obj.setTextOrigin(left_margin, height - top_margin)
page_top == PAGE_HEIGHT - TOP_MARGIN

\* the loop of create_pdf_file over the lines it draws (<<>> for a blank line):
\* each line with the cursor and the page it is drawn at; the page end is
\* looked at after a wrapped line only, never after textLine("")
RECURSIVE pdf_layout(_, _, _, _)
pdf_layout(body, y, page, acc) ==
    IF body = <<>> THEN acc
    ELSE LET drawn == Append(acc, [text |-> Head(body), y |-> y, page |-> page])
         IN  IF Head(body) # <<>> /\ y - LEADING < BOTTOM_MARGIN
             THEN pdf_layout(Tail(body), page_top, page + 1, drawn)
             ELSE pdf_layout(Tail(body), y - LEADING, page, drawn)

\* no call of create_pdf_file is looked at
NoPdf == [pc |-> "off", text |-> <<>>, drawn |-> <<>>]

\* what smtplib can do once the credentials are present
SmtpOutcomes == {"sent", "login_failed", "send_failed"}

----------------------------------------------------------------------------
(* Messages of the nodes *)

ERR_CLASSIFY == "ERR_CLASSIFY"

MSG_NO_SUMMARY == "MSG_NO_SUMMARY"

NOTE_FILE_CREATED == "NOTE_FILE_CREATED"

WARN_NO_ADDRESS == "WARN_NO_ADDRESS"

NOTE_SENT_TO == "NOTE_SENT_TO"

WARN_SEND_FAILED == "WARN_SEND_FAILED"

\* f"\n\n(... {os.path.basename(file_path)})"
note_file_created(path) == <<NL, NL, NOTE_FILE_CREATED, basename(path)>>

note_no_address == <<NL, NL, WARN_NO_ADDRESS>>

\* note_sent_to without the address
note_sent_to_anonymous(email) == <<NL, NL, NOTE_SENT_TO>>

note_sent_to(email) == <<NL, NL, NOTE_SENT_TO>> \o email

note_send_failed(e) == <<NL, NL, WARN_SEND_FAILED, e>>

----------------------------------------------------------------------------
(* The graph: START -> classify -> chat_and_act -> END *)

\* keys a node has not written yet read as "" / "none" through state.get(...) or ...
EmptyState ==
    [action |-> "none", file_type |-> "none", email |-> <<>>,
     file_path |-> <<>>, result_message |-> <<>>]

NoPlan == [outcome |-> "pending", action |-> "none", file_type |-> "none",
           email |-> <<>>, err |-> "none"]

Commands == {"cmd1"}

\* bhc_di_ko: never generated, blank, one line, two lines with double spaces
Summaries ==
    { <<>>, <<SP, NL>>, <<"K">>, <<"K", SP, SP, "a", NL, NL, "K">> }

\* str.lower() on the file types the graph can hold
lower(s) == CASE s = "PDF" -> "pdf" [] s = "DOCX" -> "docx" [] OTHER -> s

\* the browser sessions served by the one Streamlit process, all with the
\* working directory of that process
Sessions == {1, 2}

\* a session with no invocation under way
IdleSession ==
    [pc |-> "idle", action |-> "none", file_type |-> "none", bhc_di_ko |-> <<>>,
     email |-> <<>>, file_path |-> <<>>, file_bytes |-> NoFile,
     last_file |-> NoFile]

\* st.session_state["last_file"] = None
NoLastFile == [bytes |-> NoFile, name |-> "none", mime |-> "none"]

\* the session of the Streamlit page is not looked at
NoUi ==
    [pc |-> "off", bhc_di_ko |-> <<>>, chat_messages |-> <<>>,
     last_file |-> NoLastFile, agent_command_input |-> <<>>, events |-> 0,
     event |-> "none"]

\* no invocation is being repeated
NoReplay ==
    [on |-> FALSE, command |-> "none", bhc_di_ko |-> <<>>,
     routeResp |-> NoResponse, chatResp |-> NoChat, dispatch |-> "none",
     result |-> EmptyState]

\* the answers of POST /route_action looked at behind the Streamlit page: a
\* failure, no action, a file with and without a format, an e-mail
UiRouteResponses ==
    { [NoResponse EXCEPT !.kind = "transport_error"],
      [NoResponse EXCEPT !.kind = "object", !.action = "none"],
      [NoResponse EXCEPT !.kind = "object", !.action = "save_file"],
      [NoResponse EXCEPT !.kind = "object", !.action = "save_file",
                         !.file_type = "pdf"],
      [NoResponse EXCEPT !.kind = "object", !.action = "send_email",
                         !.file_type = "pdf",
                         !.email = [t |-> "str", v |-> <<SP, "e1", SP>>]] }

\* the answers of POST /agent_chat looked at behind the Streamlit page: a
\* failure, a reply, and a reasoning block alone
UiChatResponses ==
    { [kind |-> "transport_error", text |-> <<>>],
      [kind |-> "object", text |-> <<SP, "K", NL>>],
      [kind |-> "object", text |-> <<THINK_OPEN, "a", THINK_CLOSE>>] }

\* what POST /route_action can answer now: anything, or what it answered in
\* the invocation that is being repeated
RouteChoices ==
    IF replay.on THEN {replay.routeResp}
    ELSE IF ~colabBase THEN {NoResponse}
    ELSE IF ui.pc = "off" THEN RouteResponses ELSE UiRouteResponses

\* what POST /agent_chat can answer now
ChatChoices ==
    IF replay.on THEN {replay.chatResp}
    ELSE IF ~colabBase THEN {NoChat}
    ELSE IF ui.pc = "off" THEN ChatResponses ELSE UiChatResponses

\* how the SMTP session can end now
SmtpChoices ==
    IF replay.on THEN SmtpOutcomes \cap {replay.dispatch} ELSE SmtpOutcomes

\* invoke_state with the state of the last invocation carried over
invoke_state_kept(st) == st

\* the keys of the state a new invocation starts from, besides its inputs:
\* the graph is compiled without a checkpointer, none is carried over
invoke_state(st) == EmptyState

\* remote_call with the request sent a second time
remote_call_retried(base, name) == IF base THEN <<name, name>> ELSE <<>>

\* the requests.post of one remote helper: one request when the server is
\* configured, none otherwise (the helper returns before it)
remote_call(base, name) == IF base THEN <<name>> ELSE <<>>

InitGraph ==
    /\ colabBase \in BOOLEAN
    /\ smtpCreds \in BOOLEAN
    /\ pc = "Idle"
    /\ command = "none"
    /\ bhc_di_ko = <<>>
    /\ state = EmptyState
    /\ loc = EmptyState
    /\ routeResp = NoResponse
    /\ plan = NoPlan
    /\ chatResp = NoChat
    /\ genDir \in BOOLEAN
    /\ files = [p \in Paths |-> NoFile]
    /\ outbox = <<>>
    /\ calls = <<>>
    /\ exc = "none"
    /\ runs = 0
    /\ dispatch = "none"
    /\ replay = NoReplay
    /\ conc = [s \in Sessions |-> IdleSession]
    /\ filterIn = <<>>
    /\ filterOut = <<>>
    /\ pdf = NoPdf
    /\ fpc = "off"

Init ==
    /\ InitGraph
    /\ ui = NoUi

\* agent_app.invoke({"command": c, "bhc_di_ko": s, "bhc_di_en": ...}), up to
\* the first node
invoke(c, s) ==
    /\ command' = c
    /\ bhc_di_ko' = s
    /\ pc' = "classify"
    /\ state' = invoke_state(state)
    /\ loc' = EmptyState
    /\ routeResp' = NoResponse
    /\ plan' = NoPlan
    /\ chatResp' = NoChat
    /\ calls' = <<>>
    /\ exc' = "none"
    /\ runs' = runs + 1
    /\ dispatch' = "none"
    /\ UNCHANGED <<colabBase, smtpCreds, genDir, files, outbox, replay, conc,
                   filterVars, pdf>>

\* an invocation of the graph by a caller that keeps no session
Invoke ==
    /\ pc \in {"Idle", "Done", "Raised"}
    /\ runs < MaxRuns
    /\ ~replay.on
    /\ \E c \in Commands, s \in Summaries : invoke(c, s)
    /\ UNCHANGED ui

\* the state classify_node returns for a result of _call_route_action
classify_result(st, r) ==
    IF r.outcome = "raise"
    THEN [st EXCEPT !.action = "none", !.file_type = "none", !.email = <<>>,
                    !.result_message = <<ERR_CLASSIFY, r.err>>]
    ELSE [st EXCEPT !.action = r.action, !.file_type = r.file_type,
                    !.email = r.email]

ClassifyNode ==
    /\ pc = "classify"
    /\ \E resp \in RouteChoices :
          LET r == call_route_action(colabBase, resp)
          IN  /\ routeResp' = resp
              /\ plan' = r
              /\ state' = classify_result(state, r)
    /\ calls' = calls \o remote_call(colabBase, "route_action")
    /\ pc' = "chat_and_act"
    /\ UNCHANGED <<colabBase, smtpCreds, command, bhc_di_ko, loc, chatResp,
                   genDir, files, outbox, exc, runs, dispatch, replay, conc, filterVars, pdf, ui>>

\* guard without the .strip(): a whitespace-only summary passes
guard_no_strip(action, summary) ==
    action \in {"save_file", "send_email"} /\ summary = <<>>

\* the guard of chat_and_act_node: an output is asked for and there is no summary
guard(action, summary) ==
    action \in {"save_file", "send_email"} /\ strip(summary) = <<>>

guard_result ==
    [action |-> "none", file_type |-> "none", email |-> <<>>,
     file_path |-> <<>>, result_message |-> <<MSG_NO_SUMMARY>>]

\* chat_and_act_node up to result_message = reply
ChatNode ==
    /\ pc = "chat_and_act"
    /\ IF guard(state.action, bhc_di_ko)
       THEN /\ state' = guard_result
            /\ pc' = "Done"
            /\ UNCHANGED <<loc, chatResp, calls>>
       ELSE /\ \E resp \in ChatChoices :
                  /\ chatResp' = resp
                  /\ loc' = [action |-> state.action,
                             file_type |-> lower(state.file_type),
                             email |-> state.email,
                             file_path |-> <<>>,
                             result_message |->
                                 call_agent_chat_for_reply(colabBase, resp)]
            /\ calls' = calls \o remote_call(colabBase, "agent_chat")
            /\ pc' = "execute"
            /\ UNCHANGED state
    /\ UNCHANGED <<colabBase, smtpCreds, command, bhc_di_ko, routeResp, plan,
                   genDir, files, outbox, exc, runs, dispatch, replay, conc, filterVars, pdf, ui>>

\* the format chat_and_act_node writes: pdf when asked for, docx otherwise
artifact_file_type(file_type) == IF file_type = "pdf" THEN "pdf" ELSE "docx"

\* artifact_name with the e-mail names used for both actions
artifact_name_shared(action, file_type) ==
    IF file_type = "pdf" THEN "discharge_summary_email.pdf"
                         ELSE "discharge_summary_email.docx"

\* the file name chat_and_act_node gives the artifact of an action
artifact_name(action, file_type) ==
    IF action = "save_file"
    THEN (IF file_type = "pdf" THEN "discharge_summary.pdf"
                               ELSE "discharge_summary.docx")
    ELSE (IF file_type = "pdf" THEN "discharge_summary_email.pdf"
                               ELSE "discharge_summary_email.docx")

\* artifact_path with one name per format, whatever the action
artifact_path_per_format(action, file_type) ==
    path_join(GENERATED, artifact_name("save_file", file_type))

\* os.path.join(base_dir, <the name of the action and the format>)
artifact_path(action, file_type) ==
    path_join(GENERATED, artifact_name(action, file_type))

\* create_pdf_file(bhc_di_ko, file_path) or create_docx_file(bhc_di_ko, file_path)
create_file(file_type, text) ==
    IF file_type = "pdf" THEN create_pdf_file(text) ELSE create_docx_file(text)

create_call(file_type) ==
    IF file_type = "pdf" THEN "create_pdf_file" ELSE "create_docx_file"

\* has_address ignoring the address: the dispatch is always attempted
has_address_always(email) == TRUE

\* if not email: ... else: the address the dispatch is attempted for
has_address(email) == email # <<>>

\* result_message = note: the note replaces the reply
replace_by_note(msg, note) == note

\* result_message += note
add_note(msg, note) == msg \o note

\* final_state with file_path left empty
final_state_without_path(l) ==
    [action |-> l.action, file_type |-> l.file_type, email |-> l.email,
     file_path |-> <<>>, result_message |-> l.result_message]

\* the state chat_and_act_node returns at its end
final_state(l) ==
    [action |-> l.action, file_type |-> l.file_type, email |-> l.email,
     file_path |-> l.file_path, result_message |-> l.result_message]

\* the save_file branch, once the file is written
after_save(l, path) ==
    [l EXCEPT !.file_type = artifact_file_type(l.file_type),
              !.file_path = path,
              !.result_message = add_note(l.result_message, note_file_created(path))]

\* the send_email branch, once the file is written
after_email_file(l, path) ==
    [l EXCEPT !.file_type = artifact_file_type(l.file_type),
              !.file_path = path]

\* chat_and_act_node from os.makedirs(base_dir) to the written artifact
ExecuteNode ==
    /\ pc = "execute"
    /\ UNCHANGED <<colabBase, smtpCreds, command, bhc_di_ko, routeResp, plan,
                   chatResp, outbox, runs, dispatch, replay, conc, filterVars, pdf, ui>>
    /\ \/ \* os.makedirs(base_dir, exist_ok=True) raises
          /\ ~genDir
          /\ calls' = Append(calls, "makedirs")
          /\ exc' = "OSError"
          /\ pc' = "Raised"
          /\ UNCHANGED <<state, loc, genDir, files>>
       \/ \* action none: nothing but the directory
          /\ loc.action \notin {"save_file", "send_email"}
          /\ calls' = Append(calls, "makedirs")
          /\ genDir' = TRUE
          /\ state' = final_state(loc)
          /\ pc' = "Done"
          /\ UNCHANGED <<loc, files, exc>>
       \/ \* the artifact cannot be written: create_*_file raises
          /\ loc.action \in {"save_file", "send_email"}
          /\ calls' = calls \o <<"makedirs",
                                 create_call(artifact_file_type(loc.file_type))>>
          /\ genDir' = TRUE
          /\ exc' = "OSError"
          /\ pc' = "Raised"
          /\ UNCHANGED <<state, loc, files>>
       \/ \* save_file
          /\ loc.action = "save_file"
          /\ LET ft == artifact_file_type(loc.file_type)
                 path == artifact_path(loc.action, loc.file_type)
             IN  /\ calls' = calls \o <<"makedirs", create_call(ft)>>
                 /\ files' = [files EXCEPT ![path] = create_file(ft, bhc_di_ko)]
                 /\ state' = final_state(after_save(loc, path))
          /\ genDir' = TRUE
          /\ pc' = "Done"
          /\ UNCHANGED <<loc, exc>>
       \/ \* send_email: the file first
          /\ loc.action = "send_email"
          /\ LET ft == artifact_file_type(loc.file_type)
                 path == artifact_path(loc.action, loc.file_type)
             IN  /\ calls' = calls \o <<"makedirs", create_call(ft)>>
                 /\ files' = [files EXCEPT ![path] = create_file(ft, bhc_di_ko)]
                 /\ loc' = after_email_file(loc, path)
          /\ genDir' = TRUE
          /\ pc' = "email"
          /\ UNCHANGED <<state, exc>>

EMAIL_SUBJECT == "SUBJECT_DISCHARGE_SUMMARY"

\* the message send_email_with_attachment builds
email_message(to, path, bytes) ==
    [to |-> to, subject |-> EMAIL_SUBJECT, filename |-> basename(path),
     attachment |-> bytes]

\* the e-mail part of the send_email branch, up to the return
EmailNode ==
    /\ pc = "email"
    /\ UNCHANGED <<colabBase, smtpCreds, command, bhc_di_ko, routeResp, plan,
                   chatResp, genDir, files, loc, exc, runs, replay, conc, filterVars, pdf, ui>>
    /\ pc' = "Done"
    /\ \/ \* if not email
          /\ ~has_address(loc.email)
          /\ state' = final_state(
                 [loc EXCEPT !.result_message = add_note(@, note_no_address)])
          /\ UNCHANGED <<outbox, calls, dispatch>>
       \/ \* send_email_with_attachment raises: no credentials
          /\ has_address(loc.email)
          /\ ~smtpCreds
          /\ calls' = Append(calls, "send_email_with_attachment")
          /\ dispatch' = "RuntimeError"
          /\ state' = final_state(
                 [loc EXCEPT !.result_message =
                     add_note(@, note_send_failed("RuntimeError"))])
          /\ UNCHANGED outbox
       \/ \* the SMTP session
          /\ has_address(loc.email)
          /\ smtpCreds
          /\ calls' = calls \o <<"send_email_with_attachment", "SMTP_SSL">>
          /\ \E o \in SmtpChoices :
                /\ dispatch' = o
                /\ IF o = "sent"
                   THEN /\ outbox' = Append(outbox,
                               email_message(loc.email, loc.file_path,
                                             files[loc.file_path]))
                        /\ state' = final_state(
                               [loc EXCEPT !.result_message =
                                   add_note(@, note_sent_to(loc.email))])
                   ELSE /\ outbox' = outbox
                        /\ state' = final_state(
                               [loc EXCEPT !.result_message =
                                   add_note(@, note_send_failed(o))])

Next ==
    \/ Invoke
    \/ ClassifyNode
    \/ ChatNode
    \/ ExecuteNode
    \/ EmailNode

Spec == Init /\ [][Next]_vars

\* agent_app.invoke once more with the inputs of the invocation that just
\* returned, the collaborators answering as they did in it
Replay ==
    /\ pc = "Done"
    /\ ~replay.on
    /\ replay' = [on |-> TRUE, command |-> command, bhc_di_ko |-> bhc_di_ko,
                  routeResp |-> routeResp, chatResp |-> chatResp,
                  dispatch |-> dispatch, result |-> state]
    /\ pc' = "classify"
    /\ state' = invoke_state(state)
    /\ loc' = EmptyState
    /\ routeResp' = NoResponse
    /\ plan' = NoPlan
    /\ chatResp' = NoChat
    /\ calls' = <<>>
    /\ exc' = "none"
    /\ dispatch' = "none"
    /\ UNCHANGED <<colabBase, smtpCreds, command, bhc_di_ko, genDir, files,
                   outbox, runs, conc, filterVars, pdf, ui>>

NextReplay ==
    \/ Next
    \/ Replay

SpecReplay == Init /\ [][NextReplay]_vars

----------------------------------------------------------------------------
(* Two sessions invoking the graph at the same time: the file-system and   *)
(* SMTP steps of chat_and_act_node and of the caller, one action per step. *)

\* the addresses the classifier gave the two invocations
ConcEmails == {<<>>, <<"e1">>}

\* the invocation of session s has passed the guard and the reply with a
\* classified action that writes a file
ConcInvoke(s) ==
    /\ conc[s].pc = "idle"
    /\ \E a \in {"save_file", "send_email"}, ft \in {"pdf", "docx"},
          t \in {x \in Summaries : strip(x) # <<>>}, e \in ConcEmails :
          conc' = [conc EXCEPT ![s] =
                      [IdleSession EXCEPT !.pc = "write", !.action = a,
                                          !.file_type = ft, !.bhc_di_ko = t,
                                          !.email = e]]
    /\ UNCHANGED <<sequentialVars, filterVars, pdf, ui>>

\* os.makedirs and create_pdf_file / create_docx_file of session s
ConcWrite(s) ==
    /\ conc[s].pc = "write"
    /\ LET c == conc[s]
           path == artifact_path(c.action, c.file_type)
       IN  /\ genDir' = TRUE
           /\ files' = [files EXCEPT ![path] =
                           create_file(artifact_file_type(c.file_type),
                                       c.bhc_di_ko)]
           /\ conc' = [conc EXCEPT ![s].file_path = path,
                                    ![s].pc = IF c.action = "send_email"
                                                 /\ has_address(c.email)
                                              THEN "read" ELSE "returned"]
    /\ UNCHANGED <<colabBase, smtpCreds, pc, command, bhc_di_ko, state, loc,
                   routeResp, plan, chatResp, outbox, calls, exc, runs,
                   dispatch, replay, filterVars, pdf, ui>>

\* with open(file_path, "rb") as f: file_bytes = f.read()
ConcRead(s) ==
    /\ conc[s].pc = "read"
    /\ conc' = [conc EXCEPT ![s].file_bytes = files[conc[s].file_path],
                            ![s].pc = "send"]
    /\ UNCHANGED <<sequentialVars, filterVars, pdf, ui>>

\* send_email_with_attachment of session s, then the return of the graph
ConcSend(s) ==
    /\ conc[s].pc = "send"
    /\ \/ /\ smtpCreds
          /\ outbox' = Append(outbox,
                             email_message(conc[s].email, conc[s].file_path,
                                           conc[s].file_bytes))
       \/ outbox' = outbox
    /\ conc' = [conc EXCEPT ![s].pc = "returned"]
    /\ UNCHANGED <<colabBase, smtpCreds, pc, command, bhc_di_ko, state, loc,
                   routeResp, plan, chatResp, genDir, files, calls, exc, runs,
                   dispatch, replay, filterVars, pdf, ui>>

\* the caller reads the returned file_path for the download button
ConcDownload(s) ==
    /\ conc[s].pc = "returned"
    /\ conc' = [conc EXCEPT ![s].last_file = files[conc[s].file_path],
                            ![s].pc = "done"]
    /\ UNCHANGED <<sequentialVars, filterVars, pdf, ui>>

NextConc ==
    \E s \in Sessions :
        \/ ConcInvoke(s)
        \/ ConcWrite(s)
        \/ ConcRead(s)
        \/ ConcSend(s)
        \/ ConcDownload(s)

SpecConc == Init /\ [][NextConc]_vars

----------------------------------------------------------------------------
(* _keep_korean_lines on its own, over every text of at most MaxLen tokens *)

Alphabet == {"K", "a", LATIN6, SP, NL, THINK_OPEN, THINK_CLOSE}

Texts == UNION { [1..n -> Alphabet] : n \in 0..MaxLen }

InitFilter ==
    /\ colabBase = TRUE
    /\ smtpCreds = TRUE
    /\ pc = "Idle"
    /\ command = "none"
    /\ bhc_di_ko = <<>>
    /\ state = EmptyState
    /\ loc = EmptyState
    /\ routeResp = NoResponse
    /\ plan = NoPlan
    /\ chatResp = NoChat
    /\ genDir = FALSE
    /\ files = [p \in Paths |-> NoFile]
    /\ outbox = <<>>
    /\ calls = <<>>
    /\ exc = "none"
    /\ runs = 0
    /\ dispatch = "none"
    /\ replay = NoReplay
    /\ conc = [s \in Sessions |-> IdleSession]
    /\ filterIn \in Texts
    /\ filterOut = <<>>
    /\ fpc = "in"
    /\ pdf = NoPdf
    /\ ui = NoUi

FilterCall ==
    /\ fpc = "in"
    /\ filterOut' = keep_korean_lines(filterIn)
    /\ fpc' = "out"
    /\ UNCHANGED <<filterIn, agentVars, pdf, ui>>

NextFilter == FilterCall

SpecFilter == InitFilter /\ [][NextFilter]_vars

----------------------------------------------------------------------------
(* The Streamlit page: the run button and handle_agent_message of a session *)

MSG_PRE_GUARD == "MSG_PRE_GUARD"

ERR_AGENT == "ERR_AGENT"

RESULT_FIELDS == "RESULT_FIELDS"

MIME_PDF == "application/pdf"

MIME_DOCX ==
    "application/vnd.openxmlformats-officedocument.wordprocessingml.document"

\* what the user leaves in the command field: nothing, a space, a command
\* without a keyword, a command with the keyword pdf
UiInputs == {<<>>, <<SP>>, <<SP, "cmd1">>, <<"cmd_pdf", SP>>}

\* needs_output: one of the keywords is in the command
needs_output(user_cmd) ==
    \E i \in 1..Len(user_cmd) : user_cmd[i] \in {"cmd_pdf"}

\* the answers of POST /generate_ko: an exception or an object with response_ko
GenerateResponses ==
    { [kind |-> "transport_error", ko |-> <<>>] }
    \cup [kind : {"object"}, ko : {<<>>, <<SP>>, <<SP, "K", NL>>}]

\* message with every entry filed as the user's
message_as_user(role, content) == [role |-> "user", content |-> content]

\* one entry of chat_messages
message(role, content) == [role |-> role, content |-> content]

\* result_message or the listing of action, file_type and email
assistant_text(final) ==
    IF final.result_message # <<>> THEN final.result_message
    ELSE <<RESULT_FIELDS, final.action, final.file_type>> \o final.email

\* file_path.lower().endswith(".pdf")
endswith_pdf(path) ==
    basename(path) \in {"discharge_summary.pdf", "discharge_summary_email.pdf"}

\* read_last_file with the Word type for every file
read_last_file_as_docx(path) ==
    [bytes |-> files[path], name |-> basename(path), mime |-> MIME_DOCX]

\* the entry of last_file for the file at path
read_last_file(path) ==
    [bytes |-> files[path], name |-> basename(path),
     mime |-> IF endswith_pdf(path) THEN MIME_PDF ELSE MIME_DOCX]

\* if file_path and os.path.exists(file_path)
file_to_offer(final) ==
    final.file_path # <<>> /\ files[final.file_path] # NoFile

InitUI ==
    /\ InitGraph
    /\ ui = [NoUi EXCEPT !.pc = "idle"]

\* if run_button: ... the handler of the summary button
RunButton ==
    /\ ui.pc = "idle"
    /\ ui.events < MaxEvents
    /\ \E patient_info \in {<<SP>>, <<"K">>}, resp \in GenerateResponses :
          ui' = IF strip(patient_info) = <<>>
                THEN [ui EXCEPT !.events = @ + 1, !.event = "run_no_input"]
                ELSE IF resp.kind # "object"
                THEN [ui EXCEPT !.events = @ + 1, !.event = "run_failed"]
                ELSE [ui EXCEPT !.events = @ + 1, !.event = "run_ok",
                                !.bhc_di_ko = strip(resp.ko),
                                !.last_file = NoLastFile]
    /\ UNCHANGED <<agentVars, filterVars, pdf>>

\* handle_agent_message up to agent_app.invoke, or to its return when the
\* graph is not invoked
HandleAgentMessage ==
    /\ ui.pc = "idle"
    /\ ui.events < MaxEvents
    /\ pc \in {"Idle", "Done", "Raised"}
    /\ \E text \in UiInputs :
          LET user_cmd == strip(text)
          IN  \/ \* if not user_cmd: return
                 /\ user_cmd = <<>>
                 /\ ui' = [ui EXCEPT !.events = @ + 1, !.event = "cmd_empty",
                                     !.agent_command_input = text]
                 /\ UNCHANGED <<agentVars, filterVars, pdf>>
              \/ \* if needs_output and not bhc_di_ko.strip()
                 /\ user_cmd # <<>>
                 /\ needs_output(user_cmd)
                 /\ strip(ui.bhc_di_ko) = <<>>
                 /\ ui' = [ui EXCEPT
                             !.events = @ + 1, !.event = "pre_guard",
                             !.chat_messages =
                                 @ \o << message("user", user_cmd),
                                         message("assistant", <<MSG_PRE_GUARD>>) >>,
                             !.agent_command_input = <<>>]
                 /\ UNCHANGED <<agentVars, filterVars, pdf>>
              \/ \* the user message, then agent_app.invoke
                 /\ user_cmd # <<>>
                 /\ ~(needs_output(user_cmd) /\ strip(ui.bhc_di_ko) = <<>>)
                 /\ runs < MaxRuns
                 /\ ui' = [ui EXCEPT
                             !.pc = "waiting",
                             !.events = @ + 1, !.event = "agent_start",
                             !.chat_messages = Append(@, message("user", user_cmd)),
                             !.agent_command_input = text]
                 /\ invoke(user_cmd[1], ui.bhc_di_ko)

\* handle_agent_message from the return of agent_app.invoke to its end
HandleAgentReturn ==
    /\ ui.pc = "waiting"
    /\ pc \in {"Done", "Raised"}
    /\ ui' = IF pc = "Raised"
             THEN [ui EXCEPT
                     !.pc = "idle", !.event = "agent_exception",
                     !.chat_messages =
                         Append(@, message("assistant", <<ERR_AGENT, exc>>)),
                     !.agent_command_input = <<>>]
             ELSE [ui EXCEPT
                     !.pc = "idle", !.event = "agent_ok",
                     !.chat_messages =
                         Append(@, message("assistant", assistant_text(state))),
                     !.last_file = IF file_to_offer(state)
                                   THEN read_last_file(state.file_path) ELSE @,
                     !.agent_command_input = <<>>]
    /\ UNCHANGED <<agentVars, filterVars, pdf>>

NextUI ==
    \/ RunButton
    \/ HandleAgentMessage
    \/ ClassifyNode
    \/ ChatNode
    \/ ExecuteNode
    \/ EmailNode
    \/ HandleAgentReturn

SpecUI == InitUI /\ [][NextUI]_vars

----------------------------------------------------------------------------
(* create_pdf_file on its own, over texts of up to MaxLines lines *)

\* n lines, each the tokens of line followed by a newline
RECURSIVE repeat_line(_, _)
repeat_line(line, n) ==
    IF n = 0 THEN <<>> ELSE line \o <<NL>> \o repeat_line(line, n - 1)

\* the summaries given to create_pdf_file: runs of blank lines and of lines
\* of one word, in either order and twice over
PdfTexts ==
    { repeat_line(a, i) \o repeat_line(b, j) \o repeat_line(a, k) :
        a \in {<<>>, <<"K">>}, b \in {<<>>, <<"K">>, <<SP>>},
        i \in 0..MaxLines, j \in 0..MaxLines, k \in 0..1 }

InitPdf ==
    /\ colabBase = TRUE
    /\ smtpCreds = TRUE
    /\ pc = "Idle"
    /\ command = "none"
    /\ bhc_di_ko = <<>>
    /\ state = EmptyState
    /\ loc = EmptyState
    /\ routeResp = NoResponse
    /\ plan = NoPlan
    /\ chatResp = NoChat
    /\ genDir = FALSE
    /\ files = [p \in Paths |-> NoFile]
    /\ outbox = <<>>
    /\ calls = <<>>
    /\ exc = "none"
    /\ runs = 0
    /\ dispatch = "none"
    /\ replay = NoReplay
    /\ conc = [s \in Sessions |-> IdleSession]
    /\ filterIn = <<>>
    /\ filterOut = <<>>
    /\ fpc = "off"
    /\ \E t \in PdfTexts : pdf = [pc |-> "in", text |-> t, drawn |-> <<>>]
    /\ ui = NoUi

\* create_pdf_file(text, out_path), from the first line to c.save()
PdfCall ==
    /\ pdf.pc = "in"
    /\ pdf' = [pdf EXCEPT !.pc = "out",
                          !.drawn = pdf_layout(create_pdf_file(pdf.text).body,
                                               page_top, 1, <<>>)]
    /\ UNCHANGED <<agentVars, filterVars, ui>>

NextPdf == PdfCall

SpecPdf == InitPdf /\ [][NextPdf]_vars

----------------------------------------------------------------------------
(* Claims *)

Blank(summary) == strip(summary) = <<>>

OutputAction(a) == a \in {"save_file", "send_email"}

\* the number of entries of the call log that are in the set S
CountCalls(S) == Cardinality({i \in 1..Len(calls) : calls[i] \in S})

CreateCalls == {"create_pdf_file", "create_docx_file"}

\* C1: no exception escapes the graph: for every combination of collaborator
\* outcomes the invocation ends in Done with a result, a failure of
\* os.makedirs or of the artifact write included.
C1_NoExceptionEscapes == pc # "Raised" /\ exc = "none"

\* C2: with a blank (empty or whitespace-only) summary and a classified action
\* save_file or send_email, the step after classification goes straight to
\* Done with action none, file_type none, email "", file_path "" and the fixed
\* no-summary notice as the message, and it calls no collaborator and leaves
\* the directory, the files and the outbox as they were.
C2_GuardShortCircuits ==
    [][ ( /\ pc = "chat_and_act"
          /\ plan.outcome = "return"
          /\ OutputAction(plan.action)
          /\ Blank(bhc_di_ko) )
        => ( /\ pc' = "Done"
             /\ state'.action = "none"
             /\ state'.file_type = "none"
             /\ state'.email = <<>>
             /\ state'.file_path = <<>>
             /\ state'.result_message = <<MSG_NO_SUMMARY>>
             /\ calls' = calls
             /\ "agent_chat" \notin {calls[i] : i \in 1..Len(calls)}
             /\ genDir' = genDir
             /\ files' = files
             /\ outbox' = outbox ) ]_vars

C2_Witness ==
    /\ pc = "Done"
    /\ plan.action = "send_email"
    /\ bhc_di_ko = <<SP, NL>>
    /\ state.result_message = <<MSG_NO_SUMMARY>>
    /\ calls = <<"route_action">>

\* C3: when _call_route_action raises inside classify_node, the invocation
\* ends in Done with action none and the classification error as the whole
\* message, and /agent_chat is never called.
C3_ClassifyFailureShortCircuits ==
    (pc \in {"execute", "email", "Done", "Raised"} /\ plan.outcome = "raise")
    => /\ pc = "Done"
       /\ state.action = "none"
       /\ state.result_message = <<ERR_CLASSIFY, plan.err>>
       /\ CountCalls({"agent_chat"}) = 0

Recognized(a) == a \in {"none", "save_file", "send_email"}

\* C4: for a response object that _call_route_action normalizes, an action
\* outside the closed set (or a missing one) becomes none and a recognized one
\* is kept; with action save_file or send_email a missing or unrecognized
\* file_type becomes docx; with action none an unrecognized file_type becomes
\* none; pdf and docx are passed through.
C4_ClassifierNormalization ==
    (plan.outcome = "return" /\ routeResp.kind = "object")
    => /\ (~Recognized(routeResp.action) => plan.action = "none")
       /\ (Recognized(routeResp.action) => plan.action = routeResp.action)
       /\ ( ( /\ OutputAction(routeResp.action)
              /\ routeResp.file_type \notin {"pdf", "docx"} )
            => plan.file_type = "docx" )
       /\ ( ( /\ plan.action = "none"
              /\ routeResp.file_type \notin {"pdf", "docx", "MISSING"} )
            => plan.file_type = "none" )
       /\ (routeResp.file_type \in {"pdf", "docx"}
            => plan.file_type = routeResp.file_type)

C4_Witness ==
    /\ plan.outcome = "return"
    /\ routeResp.kind = "object"
    /\ routeResp.action = "delete"
    /\ routeResp.file_type = "hwp"
    /\ plan.action = "none"
    /\ plan.file_type = "none"

\* C5: on a transport failure or a malformed response (not an object, or an
\* object whose email is not a string) _call_route_action returns, without
\* raising, action none, email "" and file_type none.
C5_SafeDefaultOnFailure ==
    ( /\ plan.outcome # "pending"
      /\ \/ routeResp.kind \in {"transport_error", "not_object"}
         \/ (routeResp.kind = "object" /\ routeResp.email.t = "num") )
    => /\ plan.outcome = "return"
       /\ plan.action = "none"
       /\ plan.email = <<>>
       /\ plan.file_type = "none"

\* C6: every plan _call_route_action returns has its action in
\* {none, save_file, send_email}, its file_type in {pdf, docx, none}, and
\* file_type none only together with action none.
C6_PlanWellFormed ==
    plan.outcome = "return"
    => /\ plan.action \in {"none", "save_file", "send_email"}
       /\ plan.file_type \in {"pdf", "docx", "none"}
       /\ (plan.file_type = "none" => plan.action = "none")

C6_Witness ==
    /\ plan.outcome = "return"
    /\ routeResp.action = "save_file"
    /\ routeResp.file_type = "hwp"
    /\ plan.action = "save_file"
    /\ plan.file_type = "docx"

\* C7: the email is empty unless the action is send_email, in every plan
\* _call_route_action returns and in every state the graph returns.
C7_EmailOnlyWithSendEmail ==
    /\ ( (plan.outcome = "return" /\ plan.action \in {"none", "save_file"})
         => plan.email = <<>> )
    /\ ( (pc = "Done" /\ state.action \in {"none", "save_file"})
         => state.email = <<>> )

\* C8: when no line survives, _keep_korean_lines returns its argument
\* unchanged, so a non-empty argument never gives an empty result.
C8_FallbackReturnsOriginal ==
    fpc = "out"
    => /\ (kept_lines(filterIn) = <<>> => filterOut = filterIn)
       /\ (filterIn # <<>> => filterOut # <<>>)

\* the lines of a text, stripped, blank ones left out
StrippedLines(text) ==
    LET ls == splitlines(text)
    IN  {strip(ls[k]) : k \in 1..Len(ls)} \ {<<>>}

\* C9: reasoning blocks are removed with their contents before the lines are
\* filtered: when lines survive, every line of the result is a line of the
\* text without its reasoning blocks.
C9_ReasoningBlocksRemoved ==
    (fpc = "out" /\ kept_lines(filterIn) # <<>>)
    => StrippedLines(filterOut) \subseteq StrippedLines(remove_think(filterIn))

SaveFilePath(file_type) ==
    IF file_type = "pdf" THEN <<"generated", "discharge_summary.pdf">>
                         ELSE <<"generated", "discharge_summary.docx">>

\* C10: an invocation with a non-blank summary and classified action
\* save_file that returns has written exactly one artifact, the rendering of
\* the summary as pdf when the plan says pdf and as docx otherwise, at the
\* save_file path of that format; it returns action save_file, that format,
\* that path, and the reply followed by the success note naming the file; the
\* e-mail helper is not called.
C10_SaveFileExecution ==
    ( /\ pc = "Done"
      /\ plan.outcome = "return"
      /\ plan.action = "save_file"
      /\ ~Blank(bhc_di_ko) )
    => LET fmt == IF plan.file_type = "pdf" THEN "pdf" ELSE "docx"
           path == SaveFilePath(fmt)
       IN  /\ state.action = "save_file"
           /\ state.file_type = fmt
           /\ state.file_path = path
           /\ path # <<>>
           /\ files[path].fmt = fmt
           /\ files[path] = create_file(fmt, bhc_di_ko)
           /\ state.result_message =
                 call_agent_chat_for_reply(colabBase, chatResp)
                 \o <<NL, NL, NOTE_FILE_CREATED, path[2]>>
           /\ CountCalls(CreateCalls) = 1
           /\ CountCalls({IF fmt = "pdf" THEN "create_pdf_file"
                                          ELSE "create_docx_file"}) = 1
           /\ CountCalls({"send_email_with_attachment", "SMTP_SSL"}) = 0

C10_Witness ==
    /\ pc = "Done"
    /\ plan.action = "save_file"
    /\ plan.file_type = "pdf"
    /\ bhc_di_ko = <<"K", SP, SP, "a", NL, NL, "K">>
    /\ state.file_path = <<"generated", "discharge_summary.pdf">>
    /\ files[state.file_path].body = << <<"K", SP, "a">>, <<>>, <<"K">> >>


EmailPath(file_type) ==
    IF file_type = "pdf" THEN <<"generated", "discharge_summary_email.pdf">>
                         ELSE <<"generated", "discharge_summary_email.docx">>

\* the reply chat_and_act_node starts its message from in this invocation
ComposedReply == call_agent_chat_for_reply(colabBase, chatResp)

\* C11: an invocation with a non-blank summary, classified action send_email
\* and an empty email that returns has attempted no dispatch (the e-mail
\* helper and the SMTP session are never called, nothing is handed to SMTP by
\* it), has still written the artifact so that file_path is non-empty, keeps
\* action send_email, and returns the reply followed by the no-send warning.
C11_EmailWithoutAddress ==
    ( /\ pc = "Done"
      /\ plan.outcome = "return"
      /\ plan.action = "send_email"
      /\ plan.email = <<>>
      /\ ~Blank(bhc_di_ko) )
    => LET fmt == IF plan.file_type = "pdf" THEN "pdf" ELSE "docx"
       IN  /\ CountCalls({"send_email_with_attachment", "SMTP_SSL"}) = 0
           /\ dispatch = "none"
           /\ CountCalls(CreateCalls) = 1
           /\ state.action = "send_email"
           /\ state.file_path = EmailPath(fmt)
           /\ state.file_path # <<>>
           /\ files[state.file_path] = create_file(fmt, bhc_di_ko)
           /\ state.result_message = ComposedReply \o <<NL, NL, WARN_NO_ADDRESS>>

C11_Witness ==
    /\ pc = "Done"
    /\ plan.action = "send_email"
    /\ plan.email = <<>>
    /\ routeResp.email.v = <<SP>>
    /\ bhc_di_ko = <<"K">>
    /\ state.file_path = <<"generated", "discharge_summary_email.docx">>
    /\ files[state.file_path].fmt = "docx"

\* C12: when send_email_with_attachment fails (no credentials, login failure,
\* send failure) the invocation still returns with action send_email; the
\* artifact written before is still on disk and file_path is non-empty; the
\* message is the reply followed by the warning carrying the error, the reply
\* kept as its prefix; without credentials no SMTP session is opened.
C12_DispatchFailureIsAdditive ==
    (pc = "Done" /\ dispatch \notin {"none", "sent"})
    => /\ state.action = "send_email"
       /\ state.file_path # <<>>
       /\ state.file_path = EmailPath(state.file_type)
       /\ files[state.file_path] = create_file(state.file_type, bhc_di_ko)
       /\ state.result_message =
             ComposedReply \o <<NL, NL, WARN_SEND_FAILED, dispatch>>
       /\ SubSeq(state.result_message, 1, Len(ComposedReply)) = ComposedReply
       /\ (~smtpCreds => dispatch = "RuntimeError" /\ CountCalls({"SMTP_SSL"}) = 0)
       /\ (smtpCreds => dispatch \in {"login_failed", "send_failed"})

C12_Witness ==
    /\ pc = "Done"
    /\ dispatch = "login_failed"
    /\ state.action = "send_email"
    /\ state.email = <<"e1">>
    /\ chatResp.text = <<"a", NL, "K", "a">>
    /\ state.result_message = <<"K", "a", NL, NL, WARN_SEND_FAILED, "login_failed">>


\* C13: whenever _call_route_action returns action none, for any command,
\* summary and /agent_chat outcome, the returned state has action none, an
\* empty file_path and a non-empty message.
C13_NoOpEndToEnd ==
    (pc = "Done" /\ plan.outcome = "return" /\ plan.action = "none")
    => /\ state.action = "none"
       /\ state.file_path = <<>>
       /\ state.result_message # <<>>

\* C14: the execute step of an invocation whose action is none has no side
\* effect: the directory, the files and the outbox after it equal those
\* before it.
C14_NoneHasNoSideEffect ==
    [][ (pc = "execute" /\ loc.action = "none")
        => (genDir' = genDir /\ files' = files /\ outbox' = outbox) ]_vars

\* C15: _call_agent_chat_for_reply always yields text to show: the
\* configuration or error message when the endpoint is not configured or the
\* request fails, the try-again message when the response is empty or missing,
\* and never an empty reply; chat_and_act_node goes on from it to the action.
C15_ReplyAlwaysVisible ==
    pc = "execute"
    => /\ loc.result_message # <<>>
       /\ (~colabBase => loc.result_message = <<MSG_NO_SERVER>>)
       /\ (chatResp.kind \in {"transport_error", "not_object"}
            => loc.result_message = <<ERR_REPLY, chatResp.kind>>)
       /\ ((chatResp.kind = "object" /\ strip(chatResp.text) = <<>>)
            => loc.result_message = <<MSG_TRY_AGAIN>>)


\* C16: the state an invocation returns depends only on its inputs and on what
\* the collaborators answer during it: an invocation repeated with the same
\* inputs and the same answers returns the same state, whatever invocations
\* ran before it (ones that wrote artifacts, hit the guard or raised), and
\* every invocation starts its first node from a state holding nothing of an
\* earlier one.
C16_Stateless ==
    /\ (pc = "Done" /\ replay.on) => state = replay.result
    /\ pc = "classify" => (state = EmptyState /\ loc = EmptyState)

C16_Witness ==
    /\ pc = "Done"
    /\ replay.on
    /\ runs = 2
    /\ replay.result.action = "send_email"
    /\ replay.dispatch = "sent"
    /\ Len(outbox) = 3
    /\ state.file_path = <<"generated", "discharge_summary_email.pdf">>


\* positions in the call log of the calls named in S
Pos(S) == {i \in 1..Len(calls) : calls[i] \in S}

RemoteCalls == {"route_action", "agent_chat"}

SideEffectCalls ==
    {"makedirs", "send_email_with_attachment", "SMTP_SSL"} \cup CreateCalls

\* C17: within one invocation the steps run in the order classify, guard,
\* compose, execute: /agent_chat is requested only after /route_action has
\* returned, the directory, the artifact and the e-mail come only after
\* /agent_chat has returned, and each remote endpoint is requested at most
\* once.
C17_SequentialOrder ==
    /\ CountCalls({"route_action"}) <= 1
    /\ CountCalls({"agent_chat"}) <= 1
    /\ \A i \in Pos({"agent_chat"}) :
          /\ Pos({"route_action"}) # {}
          /\ \A j \in Pos({"route_action"}) : j < i
    /\ \A i \in Pos(SideEffectCalls) : \A j \in Pos(RemoteCalls) : j < i
    /\ (Pos(SideEffectCalls) # {} /\ colabBase)
          => (CountCalls({"route_action"}) = 1 /\ CountCalls({"agent_chat"}) = 1)
    /\ pc = "classify" => calls = <<>>
    /\ pc = "chat_and_act" => Pos({"agent_chat"} \cup SideEffectCalls) = {}
    /\ pc = "execute" => Pos(SideEffectCalls) = {}
    /\ pc = "email" => calls[Len(calls)] \in CreateCalls

C17_Witness ==
    /\ pc = "Done"
    /\ calls = <<"route_action", "agent_chat", "makedirs", "create_pdf_file",
                 "send_email_with_attachment", "SMTP_SSL">>


\* what is written to the artifact of the classified format for the summary
OwnRendering ==
    IF plan.file_type = "pdf" THEN create_pdf_file(bhc_di_ko)
                              ELSE create_docx_file(bhc_di_ko)

\* C18: in a send_email invocation the e-mail helper is called at most once,
\* only for action send_email with a non-blank summary and a non-empty
\* address, and only after the artifact has been written in full; the
\* attachment handed to SMTP is the content read back from the artifact path;
\* after a successful dispatch the message is the reply followed by the
\* confirmation naming that address, with no warning.
C18_ArtifactBeforeDispatch ==
    /\ CountCalls({"send_email_with_attachment"}) <= 1
    /\ CountCalls({"SMTP_SSL"}) <= 1
    /\ \A i \in Pos({"send_email_with_attachment"}) :
          /\ plan.action = "send_email"
          /\ ~Blank(bhc_di_ko)
          /\ plan.email # <<>>
          /\ \E j \in Pos(CreateCalls) : j < i
          /\ files[EmailPath(plan.file_type)] = OwnRendering
    /\ (pc = "Done" /\ dispatch = "sent")
          => LET m == outbox[Len(outbox)]
             IN  /\ m.to = plan.email
                 /\ state.email = plan.email
                 /\ state.file_path = EmailPath(plan.file_type)
                 /\ m.filename = state.file_path[2]
                 /\ m.attachment = files[state.file_path]
                 /\ m.attachment = OwnRendering
                 /\ state.result_message =
                       ComposedReply \o <<NL, NL, NOTE_SENT_TO>> \o plan.email
                 /\ \A k \in 1..Len(state.result_message) :
                       state.result_message[k]
                           \notin {WARN_NO_ADDRESS, WARN_SEND_FAILED}

C18_Witness ==
    /\ pc = "Done"
    /\ dispatch = "sent"
    /\ runs = 2
    /\ Len(outbox) = 2
    /\ outbox[1].attachment # outbox[2].attachment
    /\ outbox[2].filename = "discharge_summary_email.docx"


\* what session s's own summary renders to in its format
ConcOwnRendering(s) ==
    IF conc[s].file_type = "pdf" THEN create_pdf_file(conc[s].bhc_di_ko)
                                 ELSE create_docx_file(conc[s].bhc_di_ko)

\* C19: for every interleaving of two invocations that share the working
\* directory, the bytes an invocation attaches to its e-mail and the content
\* its caller finds at the file_path it returned are the rendering of that
\* invocation's own summary.
C19_ConcurrentArtifactsOwn ==
    \A s \in Sessions :
        /\ conc[s].pc \in {"send", "returned", "done"}
              => conc[s].file_bytes \in {NoFile, ConcOwnRendering(s)}
        /\ conc[s].pc = "done" => conc[s].last_file = ConcOwnRendering(s)


\* how often the token tok occurs in the line
Occurrences(line, tok) == Cardinality({i \in 1..Len(line) : line[i] = tok})

\* the Hangul syllables of a line
HangulOf(line) == Occurrences(line, "K")

\* the characters of a line that are not spaces
NonSpaceOf(line) ==
    Occurrences(line, "K") + Occurrences(line, "a")
      + 6 * Occurrences(line, LATIN6)
      + 7 * Occurrences(line, THINK_OPEN) + 8 * Occurrences(line, THINK_CLOSE)

\* the line rule as stated: Hangul present, and not both long and below 0.2
LineRuleKeeps(line) ==
    /\ line # <<>>
    /\ HangulOf(line) >= 1
    /\ ~ (NonSpaceOf(line) > 10 /\ 5 * HangulOf(line) < NonSpaceOf(line))

\* the lines of the argument, trimmed
TrimmedLines(text) ==
    LET ls == splitlines(text) IN [k \in 1..Len(ls) |-> strip(ls[k])]

Extension(path) ==
    IF path = <<>> THEN "none"
    ELSE CASE path[Len(path)] \in {"discharge_summary.pdf",
                                   "discharge_summary_email.pdf"} -> "pdf"
           [] path[Len(path)] \in {"discharge_summary.docx",
                                   "discharge_summary_email.docx"} -> "docx"
           [] OTHER -> "none"

\* C21: in the state every completed invocation returns, action is none,
\* save_file or send_email; file_path is non-empty exactly when action is
\* save_file or send_email; and then file_type is pdf or docx and is the
\* extension of file_path.
C21_ResultWellFormed ==
    pc = "Done"
    => /\ state.action \in {"none", "save_file", "send_email"}
       /\ (state.file_path # <<>>) <=> (state.action \in {"save_file", "send_email"})
       /\ state.action \in {"save_file", "send_email"}
             => /\ state.file_type \in {"pdf", "docx"}
                /\ Extension(state.file_path) = state.file_type

C21_Witness ==
    /\ pc = "Done"
    /\ runs = 2
    /\ state.action = "save_file"
    /\ routeResp.file_type = "hwp"
    /\ state.file_type = "docx"
    /\ state.file_path = <<"generated", "discharge_summary.docx">>


SaveFilePaths == {SaveFilePath("pdf"), SaveFilePath("docx")}

EmailPaths == {EmailPath("pdf"), EmailPath("docx")}

\* C22: the artifact path is a function of the action and the format alone,
\* the four paths are pairwise distinct, and in every step of every sequence
\* of invocations a send_email invocation leaves the save_file artifacts as
\* they are and a save_file invocation leaves the send_email artifacts as
\* they are.
C22_ArtifactPathsDisjoint ==
    [][ /\ Cardinality(SaveFilePaths \cup EmailPaths) = 4
        /\ loc.action = "send_email"
              => \A p \in SaveFilePaths : files'[p] = files[p]
        /\ loc.action = "save_file"
              => \A p \in EmailPaths : files'[p] = files[p]
        /\ \A p \in Paths :
              files'[p] # files[p]
                 => /\ loc.action \in {"save_file", "send_email"}
                    /\ p = (IF loc.action = "save_file"
                            THEN SaveFilePath(loc.file_type)
                            ELSE EmailPath(loc.file_type))
        /\ (pc' = "Done" /\ state'.action = "save_file")
              => state'.file_path = SaveFilePath(state'.file_type)
        /\ (pc' = "Done" /\ state'.action = "send_email")
              => state'.file_path = EmailPath(state'.file_type) ]_vars

\* a send_email invocation after a save_file invocation of the same format
\* and another summary: both artifacts exist, each with its own content
C22_Witness ==
    /\ pc = "Done"
    /\ runs = 2
    /\ state.action = "send_email"
    /\ files[SaveFilePath("pdf")] # NoFile
    /\ files[EmailPath("pdf")] # NoFile
    /\ files[SaveFilePath("pdf")] # files[EmailPath("pdf")]


\* C23: in create_pdf_file, whenever the cursor is below the bottom margin
\* after a drawn line, blank or not, the next line starts a new page at the
\* top margin, so that no non-blank line is drawn with the cursor below the
\* bottom margin; and every blank line of the text draws exactly one blank
\* line.
C23_PdfPagination ==
    pdf.pc = "out"
    => LET d == pdf.drawn
           ls == splitlines(pdf.text)
       IN  /\ \A k \in 1..Len(d) :
                 /\ d[k].text # <<>> => d[k].y >= BOTTOM_MARGIN
                 /\ (k < Len(d) /\ d[k].y - LEADING < BOTTOM_MARGIN)
                       => (d[k+1].y = page_top /\ d[k+1].page = d[k].page + 1)
           /\ Len(d) = Len(ls)
           /\ \A k \in 1..Len(ls) : (strip(ls[k]) = <<>>) <=> (d[k].text = <<>>)


\* the step is the event e of the session
UiEvent(e) == ui' # ui /\ ui'.event = e

\* C24: last_file of the session changes only in a successful summary
\* generation, which resets it to None, and in an agent turn whose result
\* names a file that exists, which sets it to the bytes, the base name and
\* the MIME type of the extension of that file; an empty command, the keyword
\* pre-guard, an agent turn without file_path (action none, the guard of the
\* graph), an agent exception and a failed or refused summary generation
\* leave it as it is, and so does every step of the graph.
C24_LastFileFrame ==
    [][ /\ UiEvent("run_ok") => ui'.last_file = NoLastFile
        /\ UiEvent("agent_ok")
              => ui'.last_file =
                    IF state.file_path # <<>> /\ files[state.file_path] # NoFile
                    THEN [bytes |-> files[state.file_path],
                          name |-> state.file_path[Len(state.file_path)],
                          mime |-> IF Extension(state.file_path) = "pdf"
                                   THEN MIME_PDF ELSE MIME_DOCX]
                    ELSE ui.last_file
        /\ ~(UiEvent("run_ok") \/ UiEvent("agent_ok"))
              => ui'.last_file = ui.last_file ]_vars

\* a file offered after a save_file turn is still offered after a turn that
\* raised
C24_Witness ==
    /\ ui.pc = "idle"
    /\ ui.event = "agent_exception"
    /\ ui.last_file.mime = MIME_PDF
    /\ ui.last_file.name = "discharge_summary.pdf"
    /\ ui.last_file.bytes = files[SaveFilePath("pdf")]


\* chat_messages alternates user, assistant from a user message on
Alternates(msgs) ==
    \A i \in 1..Len(msgs) :
        msgs[i].role = (IF i % 2 = 1 THEN "user" ELSE "assistant")

\* C25: a call of handle_agent_message with a non-empty trimmed command
\* appends one user message with that command and then one assistant message
\* to chat_messages and clears the command field, on the keyword pre-guard
\* (which does not invoke the graph), on a returned invocation and on a raised
\* one; a call with an empty command changes nothing of the session; so
\* between two events chat_messages alternates user, assistant and has even
\* length.
C25_ChatHistory ==
    /\ [](ui.pc = "idle"
            => Alternates(ui.chat_messages) /\ Len(ui.chat_messages) % 2 = 0)
    /\ [][ /\ UiEvent("cmd_empty")
                => /\ strip(ui'.agent_command_input) = <<>>
                   /\ ui'.chat_messages = ui.chat_messages
                   /\ ui'.last_file = ui.last_file
                   /\ ui'.bhc_di_ko = ui.bhc_di_ko
                   /\ runs' = runs
           /\ UiEvent("pre_guard")
                => /\ Len(ui'.chat_messages) = Len(ui.chat_messages) + 2
                   /\ SubSeq(ui'.chat_messages, 1, Len(ui.chat_messages))
                         = ui.chat_messages
                   /\ ui'.chat_messages[Len(ui.chat_messages) + 1].role = "user"
                   /\ ui'.chat_messages[Len(ui.chat_messages) + 1].content # <<>>
                   /\ ui'.chat_messages[Len(ui.chat_messages) + 2].role = "assistant"
                   /\ ui'.agent_command_input = <<>>
                   /\ runs' = runs
                   /\ pc' = pc
           /\ UiEvent("agent_start")
                => /\ Len(ui'.chat_messages) = Len(ui.chat_messages) + 1
                   /\ SubSeq(ui'.chat_messages, 1, Len(ui.chat_messages))
                         = ui.chat_messages
                   /\ ui'.chat_messages[Len(ui'.chat_messages)] =
                         [role |-> "user",
                          content |-> strip(ui'.agent_command_input)]
                   /\ strip(ui'.agent_command_input) # <<>>
                   /\ runs' = runs + 1
           /\ (UiEvent("agent_ok") \/ UiEvent("agent_exception"))
                => /\ Len(ui'.chat_messages) = Len(ui.chat_messages) + 1
                   /\ SubSeq(ui'.chat_messages, 1, Len(ui.chat_messages))
                         = ui.chat_messages
                   /\ ui'.chat_messages[Len(ui'.chat_messages)].role = "assistant"
                   /\ ui.chat_messages[Len(ui.chat_messages)].role = "user"
                   /\ ui'.agent_command_input = <<>>
           /\ ui'.chat_messages # ui.chat_messages
                => ui'.event \in {"pre_guard", "agent_start", "agent_ok",
                                  "agent_exception"} ]_vars

\* the pre-guard, then a turn that raised: four messages
C25_Witness ==
    /\ ui.pc = "idle"
    /\ ui.event = "agent_exception"
    /\ Len(ui.chat_messages) = 4
    /\ ui.chat_messages[2].content = <<MSG_PRE_GUARD>>
    /\ ui.chat_messages[4].content[1] = ERR_AGENT
    /\ ui.agent_command_input = <<>>

====
